---- MODULE Spec2Model ----
(***************************************************************************)
(* Model of options_data_download.py: MarketDataDownloader.                *)
(*                                                                         *)
(* download_data expands [start_date, end_date) x instruments into tasks,  *)
(* submits them to a ThreadPoolExecutor(max_workers) and collects the      *)
(* results with as_completed.  Each task is                                *)
(* download_single_date_instrument: weekend check, directory creation,     *)
(* remote get_data, process_data, save_data, all inside one try/except.    *)
(***************************************************************************)
EXTENDS Integers, Sequences, FiniteSets, TLC

(***************************************************************************)
(* Bounds of the model.                                                    *)
(***************************************************************************)
\* start_date is FirstDate + 0..MaxDay, end_date is FirstDate + 0..MaxDay+1
MaxDay == 2
\* a run has at most MaxTasks (date, instrument) pairs
MaxTasks == 4
\* max_workers is drawn from 1..MaxWorkers
MaxWorkers == 2
\* raw frames given to process_data on its own have at most MaxRows rows
MaxRows == 2

None == "None"

(***************************************************************************)
(* datetime.date: a record [year, month, day] with the proleptic Gregorian *)
(* arithmetic of the standard library.                                     *)
(***************************************************************************)
Date(y, m, d) == [year |-> y, month |-> m, day |-> d]

IsLeap(y) == (y % 4 = 0) /\ ((y % 100 # 0) \/ (y % 400 = 0))

DaysInMonth(y, m) ==
    CASE m = 2 -> IF IsLeap(y) THEN 29 ELSE 28
      [] m \in {4, 6, 9, 11} -> 30
      [] OTHER -> 31

DaysBeforeYear(y) ==
    (y - 1) * 365 + ((y - 1) \div 4) - ((y - 1) \div 100) + ((y - 1) \div 400)

RECURSIVE DaysBeforeMonth(_, _)
DaysBeforeMonth(y, m) ==
    IF m = 1 THEN 0 ELSE DaysBeforeMonth(y, m - 1) + DaysInMonth(y, m - 1)

ToOrdinal(date) ==
    DaysBeforeYear(date.year) + DaysBeforeMonth(date.year, date.month) + date.day

\* date.weekday(): Monday is 0, Saturday is 5, Sunday is 6
Weekday(date) == (ToOrdinal(date) + 6) % 7

\* current_date += timedelta(days=1)
AddDay(date) ==
    IF date.day < DaysInMonth(date.year, date.month)
    THEN Date(date.year, date.month, date.day + 1)
    ELSE IF date.month < 12
         THEN Date(date.year, date.month + 1, 1)
         ELSE Date(date.year + 1, 1, 1)

RECURSIVE AddDays(_, _)
AddDays(date, n) == IF n = 0 THEN date ELSE AddDays(AddDay(date), n - 1)

\* a slip: current_date <= end_date
DateLT_OrEqual(a, b) ==
    \/ a.year < b.year
    \/ a.year = b.year /\ a.month < b.month
    \/ a.year = b.year /\ a.month = b.month /\ a.day <= b.day

\* current_date < end_date
DateLT(a, b) ==
    \/ a.year < b.year
    \/ a.year = b.year /\ a.month < b.month
    \/ a.year = b.year /\ a.month = b.month /\ a.day < b.day

(***************************************************************************)
(* Strings: str(int), strftime('%d_%m_%Y'), str.lower().                   *)
(***************************************************************************)
Digit(n) ==
    CASE n = 0 -> "0" [] n = 1 -> "1" [] n = 2 -> "2" [] n = 3 -> "3"
      [] n = 4 -> "4" [] n = 5 -> "5" [] n = 6 -> "6" [] n = 7 -> "7"
      [] n = 8 -> "8" [] n = 9 -> "9"

\* str(n) of a non-negative integer: no padding
RECURSIVE Str(_)
Str(n) == IF n < 10 THEN Digit(n) ELSE Str(n \div 10) \o Digit(n % 10)

\* %d and %m: two digits, zero padded
Pad2(n) == Digit((n \div 10) % 10) \o Digit(n % 10)

\* %Y: four digits, zero padded
Pad4(n) == Pad2(n \div 100) \o Pad2(n % 100)

\* date.strftime('%d_%m_%Y')
DateStr(date) == Pad2(date.day) \o "_" \o Pad2(date.month) \o "_" \o Pad4(date.year)

\* the instrument names of the model
Instruments == {"NIFTY", "BANKNIFTY", "nifty"}

\* instrument.lower()
Lower(s) ==
    CASE s = "NIFTY" -> "nifty"
      [] s = "nifty" -> "nifty"
      [] s = "BANKNIFTY" -> "banknifty"
      [] s = "banknifty" -> "banknifty"

(***************************************************************************)
(* Paths.  A path is the string of its components joined by "/".           *)
(***************************************************************************)
base_path == "market_data"

\* a slip: the options group is saved first
Legs_OptionsFirst == <<"options", "fut", "spot">>

\* the order in which save_data goes through the groups
Legs == <<"fut", "spot", "options">>

\* the key of data_dict that save_data writes to the leg's directory
GroupOf(leg) ==
    CASE leg = "fut" -> "futures"
      [] leg = "spot" -> "spot"
      [] leg = "options" -> "options"

\* directories[leg] of create_directory_structure
Directory(date, instrument, leg) ==
    base_path \o "/" \o Lower(instrument) \o "_" \o leg
              \o "/" \o Str(date.year) \o "/" \o Str(date.month)

directories(date, instrument) ==
    [leg \in {"fut", "spot", "options"} |-> Directory(date, instrument, leg)]

\* the path itself and the parents that mkdir(parents=True) creates
PathChain(date, instrument, leg) ==
    { base_path,
      base_path \o "/" \o Lower(instrument) \o "_" \o leg,
      base_path \o "/" \o Lower(instrument) \o "_" \o leg \o "/" \o Str(date.year),
      Directory(date, instrument, leg) }

\* the file name save_data gives the leg
FileName(date, instrument, leg) ==
    Lower(instrument) \o "_" \o leg \o "_" \o DateStr(date) \o ".csv"

\* the destination of to_csv for the leg, under the given directories
FilePath(dirs, date, instrument, leg) ==
    dirs[leg] \o "/" \o FileName(date, instrument, leg)

(***************************************************************************)
(* Data frames.  A frame is [columns, rows]: columns is the sequence of    *)
(* column names, rows the sequence of rows, each row a function from the   *)
(* frame's columns to values.  The "time" value of a raw row is its        *)
(* position in the fetched frame, so rows are told apart.                  *)
(***************************************************************************)
Range(seq) == { seq[k] : k \in 1..Len(seq) }

base_columns ==
    <<"date", "time", "symbol", "open", "high", "low", "close", "oi", "volume">>

spot_columns == <<"date", "time", "symbol", "open", "high", "low", "close">>

Frame(cols, rws) == [columns |-> cols, rows |-> rws]

MakeRow(cols, k, sym) ==
    [c \in Range(cols) |-> IF c = "symbol" THEN sym ELSE IF c = "time" THEN k ELSE 0]

\* the raw frame with the given columns and one row per symbol of syms
RawFrame(cols, syms) ==
    Frame(cols, [k \in 1..Len(syms) |-> MakeRow(cols, k, syms[k])])

\* data[cols]: KeyError when a column is missing, else the projection
HasColumns(data, cols) == Range(cols) \subseteq Range(data.columns)

Project(data, cols) ==
    Frame(cols, [k \in 1..Len(data.rows) |-> [c \in Range(cols) |-> data.rows[k][c]]])

\* data[mask]: the selected rows, in order, under the columns of data
Masked(data, rws) == Frame(data.columns, rws)

\* no frame yet (a fetched frame always has columns)
NoFrame == Frame(<<>>, <<>>)

\* process_data has not been applied yet
NotRun == [ok |-> FALSE, exc |-> "not run"]

\* DataFrame.empty
Empty(data) == Len(data.rows) = 0

spot_symbol(instrument) == instrument

futures_symbol(instrument) == instrument \o "-I"

FuturesMask(row, instrument) == row["symbol"] = futures_symbol(instrument)

SpotMask(row, instrument) == row["symbol"] = spot_symbol(instrument)

\* a slip: | instead of & between the two inequalities
OptionsMask_Or(row, instrument) ==
    (row["symbol"] # spot_symbol(instrument)) \/ (row["symbol"] # futures_symbol(instrument))

OptionsMask(row, instrument) ==
    (row["symbol"] # spot_symbol(instrument)) /\ (row["symbol"] # futures_symbol(instrument))

\* a slip: the spot group keeps all base columns
SpotProjection_All == base_columns

\* the columns kept for the spot group
SpotProjection == spot_columns

\* process_data: [ok |-> FALSE, exc] when data[base_columns] raises
process_data(data, instrument) ==
    IF ~HasColumns(data, base_columns)
    THEN [ok |-> FALSE, exc |-> "KeyError"]
    ELSE LET d == Project(data, base_columns) IN
         [ok |-> TRUE,
          value |->
            [futures |-> Masked(d, SelectSeq(d.rows,
                                     LAMBDA r : FuturesMask(r, instrument))),
             spot    |-> Project(Masked(d, SelectSeq(d.rows,
                                     LAMBDA r : SpotMask(r, instrument))),
                                 SpotProjection),
             options |-> Masked(d, SelectSeq(d.rows,
                                     LAMBDA r : OptionsMask(r, instrument)))]]

(***************************************************************************)
(* The inputs of a run and the remote collaborator.                        *)
(***************************************************************************)
\* Friday 31 December 2021: the window reaches over a year end and a weekend
FirstDate == Date(2021, 12, 31)

\* the instrument lists offered to download_data (the second is its default)
InstrumentLists ==
    { <<>>, <<"NIFTY">>, <<"NIFTY", "BANKNIFTY">>, <<"NIFTY", "nifty">>,
      <<"NIFTY", "BANKNIFTY", "nifty">> }

\* what the vendor holds: ma.get_data raises or returns one of these frames.
\* NIFTY has rows of all three kinds, or a frame without oi and volume;
\* BANKNIFTY has a spot row only; nifty has a futures and an options row.
RemoteFrames(instrument) ==
    CASE instrument = "NIFTY" ->
            { RawFrame(base_columns, <<"NIFTY-I", "NIFTY", "NIFTY24JANCE">>),
              RawFrame(SubSeq(base_columns, 1, 7), <<"NIFTY">>) }
      [] instrument = "BANKNIFTY" ->
            { RawFrame(base_columns, <<"BANKNIFTY">>) }
      [] instrument = "nifty" ->
            { RawFrame(base_columns, <<"nifty-I", "NIFTY24JANCE">>) }

\* the symbols and column lists of the frames given to process_data on its own
RowSymbols == {"NIFTY", "NIFTY-I", "nifty", "NIFTY24JANCE", "BANKNIFTY-I"}

ColumnLists ==
    { base_columns, base_columns \o <<"ticker">>, SubSeq(base_columns, 1, 7) }

SymbolSeqs == UNION { [1..n -> RowSymbols] : n \in 0..MaxRows }

VARIABLES
    start_date, end_date, instruments, max_workers,  \* arguments of download_data
    login,       \* what the remote login did: not tried, ok, raised, refused
    pc,          \* position of main and download_data: main, aborted, start,
                 \* submitted, as_completed, returned, raised
    tasks,       \* the list of (date, instrument) built at line 110
    futures,     \* per task: the Future [state, result, exception]
    local,       \* per task: the frame of download_single_date_instrument
    hist,        \* per task: what the task has done so far
    collected,   \* the futures as_completed has yielded
    ready,       \* the finished futures not yet yielded, in completion order
    snapshot,    \* those of them that were finished when as_completed was called
    errors,      \* the list of line 111
    report,      \* the value download_data returned
    dirs,        \* the directories that exist
    files,       \* the files that exist
    cls_in, cls_instrument, cls_out   \* process_data applied on its own

vars == <<start_date, end_date, instruments, max_workers, login, pc, tasks,
          futures, local, hist, collected, ready, snapshot, errors, report,
          dirs, files, cls_in, cls_instrument, cls_out>>

inputs == <<start_date, end_date, instruments, max_workers>>

cls == <<cls_in, cls_instrument, cls_out>>

(***************************************************************************)
(* download_data, lines 104-110: the dates and the tasks.                  *)
(***************************************************************************)
RECURSIVE DateRange(_, _)
DateRange(current_date, stop) ==
    IF DateLT(current_date, stop)
    THEN <<current_date>> \o DateRange(AddDay(current_date), stop)
    ELSE <<>>

\* a slip: zip(dates, instruments) instead of the product
Tasks_Zip(dates, instrs) ==
    [k \in 1..(IF Len(dates) < Len(instrs) THEN Len(dates) ELSE Len(instrs)) |->
        <<dates[k], instrs[k]>>]

\* [(date, instrument) for date in dates for instrument in instruments]
Tasks(dates, instrs) ==
    [k \in 1..(Len(dates) * Len(instrs)) |->
        <<dates[((k - 1) \div Len(instrs)) + 1], instrs[((k - 1) % Len(instrs)) + 1]>>]

TaskIds == 1..Len(tasks)

TaskDate(i) == tasks[i][1]

TaskInstrument(i) == tasks[i][2]

\* a slip: only Sunday is skipped
IsWeekend_SundayOnly(date) == Weekday(date) \in {6}

\* date.weekday() in [5, 6]
IsWeekend(date) == Weekday(date) \in {5, 6}

(***************************************************************************)
(* The pool: a worker thread takes the oldest queued work item.            *)
(***************************************************************************)
Running(i) == futures[i].state = "RUNNING"

BusyWorkers == { local[i].worker : i \in { j \in TaskIds : Running(j) } }

\* a slip: a pool that starts a thread per item, whatever is running
IdleWorkers_All == 1..max_workers

\* a slip: the pool runs one task at a time, whatever max_workers is
IdleWorkers_OneSlot == IF BusyWorkers = {} THEN 1..max_workers ELSE {}

\* the worker threads that are not inside a task
IdleWorkers == (1..max_workers) \ BusyWorkers

\* the worker threads are interchangeable: the lowest idle one takes the item
NextWorker == CHOOSE w \in IdleWorkers : \A v \in IdleWorkers : w <= v

\* a slip: a task whose fetch failed is put back in the queue once
Pending_Retry ==
    { i \in TaskIds : \/ futures[i].state = "PENDING"
                      \/ /\ futures[i].state = "FINISHED"
                         /\ hist[i].exc = "FetchError"
                         /\ hist[i].fetches < 2 }

\* the work queue: the submitted tasks no worker has taken yet
Pending == { i \in TaskIds : futures[i].state = "PENDING" }

NextQueued == CHOOSE i \in Pending : \A j \in Pending : i <= j

(***************************************************************************)
(* download_single_date_instrument: the values a task can hand back.       *)
(***************************************************************************)
\* the connection a task calls get_data on: self.ma, made once in __init__
\* and shared by all workers
ConnectionOf(i) == "self.ma"

\* return None, lines 87 and 96
ReturnNone == [result |-> None, exception |-> None]

\* a slip: the except clause raises again instead of returning the tuple
Except_Reraise(e, date, instrument) == [result |-> None, exception |-> e]

\* except Exception as e: return (date, instrument, str(e)), lines 98-100
Except(e, date, instrument) == [result |-> <<date, instrument, e>>, exception |-> None]

NewFuture == [state |-> "PENDING", result |-> None, exception |-> None]

\* the locals directories and processed_data before they are assigned
NoDirectories == [leg \in {"fut", "spot", "options"} |-> ""]

NoData == [futures |-> NoFrame, spot |-> NoFrame, options |-> NoFrame]

NewLocal ==
    [phase |-> "queued", worker |-> 0, directories |-> NoDirectories,
     processed_data |-> NoData]

\* starts: how many times a worker took the task; exc: the exception raised
\* inside the task; raw_data: the frame get_data returned; results: how many
\* times the task's Future was given a result
NewHist ==
    [starts |-> 0, exc |-> None, fetches |-> 0, mkdirs |-> {},
     raw_data |-> NoFrame, written |-> {}, results |-> 0]

\* the task function has returned or raised: the Future is set, the worker freed
Finished(i, outcome) ==
    /\ futures' = [futures EXCEPT ![i] =
                      [state |-> "FINISHED", result |-> outcome.result,
                       exception |-> outcome.exception]]
    /\ local' = [local EXCEPT ![i] = [NewLocal EXCEPT !.phase = "done"]]
    /\ ready' = Append(ready, i)

\* the task ends: normally (e = None) or through the except clause with e
TaskEnds(i, h, e) ==
    /\ Finished(i, IF e = None THEN ReturnNone
                   ELSE Except(e, TaskDate(i), TaskInstrument(i)))
    /\ hist' = [hist EXCEPT ![i] = [h EXCEPT !.exc = e, !.results = @ + 1]]

\* a slip: mkdir without exist_ok=True raises when the directory exists
create_directory_structure_NoExistOk(existing, date, instrument) ==
    [ok |-> \A leg \in Range(Legs) : Directory(date, instrument, leg) \notin existing,
     dirs |-> existing \cup UNION { PathChain(date, instrument, leg) :
                                        leg \in Range(Legs) },
     value |-> directories(date, instrument)]

\* create_directory_structure: mkdir(parents=True, exist_ok=True) of the three
\* directories; never raises for a directory that exists
create_directory_structure(existing, date, instrument) ==
    [ok |-> TRUE,
     dirs |-> existing \cup UNION { PathChain(date, instrument, leg) :
                                        leg \in Range(Legs) },
     value |-> directories(date, instrument)]

(***************************************************************************)
(* Initial state: main is about to construct the downloader.               *)
(***************************************************************************)
Idle ==
    /\ tasks = <<>>
    /\ futures = <<>>
    /\ local = <<>>
    /\ hist = <<>>
    /\ collected = {}
    /\ ready = <<>>
    /\ snapshot = {}
    /\ errors = <<>>
    /\ report = None
    /\ dirs = {}
    /\ files = {}

Init ==
    /\ \E s \in 0..MaxDay, e \in 0..(MaxDay + 1) :
          /\ start_date = AddDays(FirstDate, s)
          /\ end_date = AddDays(FirstDate, e)
    /\ instruments \in InstrumentLists
    /\ Len(DateRange(start_date, end_date)) * Len(instruments) <= MaxTasks
    /\ max_workers \in 1..MaxWorkers
    /\ login = "not tried"
    /\ pc = "main"
    /\ Idle
    /\ cls_in = NoFrame /\ cls_instrument = None /\ cls_out = NotRun

(***************************************************************************)
(* main, lines 138-149, and __init__, lines 11-14: the downloader is       *)
(* constructed, which logs in; only then download_data is called.          *)
(***************************************************************************)
\* what ma.login and ma.check_login can do
LoginOutcomes == {"ok", "raised", "refused"}

\* a slip: check_login is not looked at
initialize_connection_Unchecked(outcome) ==
    IF outcome = "raised"
    THEN [ok |-> FALSE, exc |-> "LoginError"]
    ELSE [ok |-> TRUE, exc |-> None]

\* initialize_connection: login raises, or check_login is false and
\* ConnectionError is raised, or ma is returned; the except clause re-raises
initialize_connection(outcome) ==
    IF outcome = "raised"
    THEN [ok |-> FALSE, exc |-> "LoginError"]
    ELSE IF outcome = "ok"
    THEN [ok |-> TRUE, exc |-> None]
    ELSE [ok |-> FALSE, exc |-> "ConnectionError"]

Login ==
    /\ pc = "main"
    /\ \E outcome \in LoginOutcomes :
          /\ login' = outcome
          /\ pc' = IF initialize_connection(outcome).ok THEN "start" ELSE "aborted"
    /\ UNCHANGED <<inputs, tasks, futures, local, hist, collected, ready, snapshot,
                   errors, report, dirs, files, cls>>

(***************************************************************************)
(* download_data, lines 104-115: build the tasks and submit them all.      *)
(***************************************************************************)
Submit ==
    /\ pc = "start"
    /\ LET ts == Tasks(DateRange(start_date, end_date), instruments) IN
          /\ tasks' = ts
          /\ futures' = [k \in 1..Len(ts) |-> NewFuture]
          /\ local' = [k \in 1..Len(ts) |-> NewLocal]
          /\ hist' = [k \in 1..Len(ts) |-> NewHist]
    /\ errors' = <<>>
    /\ pc' = "submitted"
    /\ UNCHANGED <<inputs, login, collected, ready, snapshot, report, dirs, files, cls>>

(***************************************************************************)
(* download_single_date_instrument, lines 84-92: a worker takes the oldest *)
(* queued task; a weekend date returns None at once, any other date has    *)
(* its directories created and then enters ma.get_data.                    *)
(***************************************************************************)
StartTask(i, w) ==
    /\ Pending # {}
    /\ i = NextQueued
    /\ IdleWorkers # {}
    /\ w = NextWorker
    /\ LET date == TaskDate(i)
           instrument == TaskInstrument(i)
           made == create_directory_structure(dirs, date, instrument)
           h == [hist[i] EXCEPT !.starts = @ + 1]
       IN  IF IsWeekend(date)
           THEN /\ TaskEnds(i, h, None)
                /\ UNCHANGED dirs
           ELSE IF ~made.ok
           THEN /\ TaskEnds(i, h, "FileExistsError")
                /\ UNCHANGED dirs
           ELSE /\ futures' = [futures EXCEPT ![i].state = "RUNNING"]
                /\ local' = [local EXCEPT ![i] =
                               [phase |-> "get_data", worker |-> w,
                                directories |-> made.value,
                                processed_data |-> NoData]]
                /\ hist' = [hist EXCEPT ![i] =
                              [h EXCEPT !.mkdirs = { made.value[leg] : leg \in Range(Legs) },
                                        !.fetches = @ + 1]]
                /\ dirs' = made.dirs
                /\ UNCHANGED ready
    /\ UNCHANGED <<inputs, login, pc, tasks, collected, snapshot, errors, report, files, cls>>

\* the position of a task inside save_data
SavePhase(leg) ==
    CASE leg = "fut" -> "save_fut"
      [] leg = "spot" -> "save_spot"
      [] leg = "options" -> "save_options"

\* a slip: the emptiness test is dropped
ShouldWrite_Always(group) == TRUE

\* if not data_dict[group].empty
ShouldWrite(group) == ~Empty(group)

\* the phase of the first to_csv at or after leg k, "return" when none is left
RECURSIVE NextPhase(_, _)
NextPhase(data_dict, k) ==
    IF k > Len(Legs) THEN "return"
    ELSE IF ShouldWrite(data_dict[GroupOf(Legs[k])]) THEN SavePhase(Legs[k])
    ELSE NextPhase(data_dict, k + 1)

LegIndex(leg) == CHOOSE k \in 1..Len(Legs) : Legs[k] = leg

\* save_data goes on from leg k with the given groups
Continue(i, h, data_dict, k) ==
    IF NextPhase(data_dict, k) = "return"
    THEN TaskEnds(i, h, None)
    ELSE /\ local' = [local EXCEPT ![i].phase = NextPhase(data_dict, k),
                                   ![i].processed_data = data_dict]
         /\ hist' = [hist EXCEPT ![i] = h]
         /\ UNCHANGED <<futures, ready>>

(***************************************************************************)
(* Lines 92-93: ma.get_data returns or raises; a returned frame goes       *)
(* through process_data.                                                   *)
(***************************************************************************)
GetDataRaises(i) ==
    /\ i \in TaskIds
    /\ local[i].phase = "get_data"
    /\ TaskEnds(i, hist[i], "FetchError")
    /\ UNCHANGED <<inputs, login, pc, tasks, collected, snapshot, errors, report, dirs, files, cls>>

GetDataReturns(i) ==
    /\ i \in TaskIds
    /\ local[i].phase = "get_data"
    /\ \E raw_data \in RemoteFrames(TaskInstrument(i)) :
          LET p == process_data(raw_data, TaskInstrument(i))
              h == [hist[i] EXCEPT !.raw_data = raw_data]
          IN  IF p.ok
              THEN Continue(i, h, p.value, 1)
              ELSE TaskEnds(i, h, p.exc)
    /\ UNCHANGED <<inputs, login, pc, tasks, collected, snapshot, errors, report, dirs, files, cls>>

\* ma.get_data never returns: the call has no timeout, the worker stays in it
GetDataHangs(i) ==
    /\ i \in TaskIds
    /\ local[i].phase = "get_data"
    /\ local' = [local EXCEPT ![i].phase = "hung"]
    /\ UNCHANGED <<inputs, login, pc, tasks, futures, hist, collected, ready, snapshot,
                   errors, report, dirs, files, cls>>

(***************************************************************************)
(* save_data, lines 75-80: the groups in the order fut, spot, options; an  *)
(* empty group is skipped, a non-empty one is written with to_csv, which   *)
(* may raise; after the last leg the task returns None.                    *)
(***************************************************************************)
WriteLeg(i, leg) ==
    /\ i \in TaskIds
    /\ local[i].phase = SavePhase(leg)
    /\ local[i].directories[leg] \in dirs
    /\ LET path == FilePath(local[i].directories, TaskDate(i), TaskInstrument(i), leg)
       IN  /\ files' = files \cup {path}
           /\ Continue(i, [hist[i] EXCEPT !.written = @ \cup {path}],
                       local[i].processed_data, LegIndex(leg) + 1)
    /\ UNCHANGED <<inputs, login, pc, tasks, collected, snapshot, errors, report, dirs, cls>>

WriteLegRaises(i, leg) ==
    /\ i \in TaskIds
    /\ local[i].phase = SavePhase(leg)
    /\ TaskEnds(i, hist[i], "PersistError")
    /\ UNCHANGED <<inputs, login, pc, tasks, collected, snapshot, errors, report, dirs, files, cls>>

(***************************************************************************)
(* download_data, lines 117-127: as_completed yields a finished future,    *)
(* its result is appended when truthy; after the last one the executor is  *)
(* shut down and errors is returned.                                       *)
(***************************************************************************)
\* a slip: if not result
Truthy_Inverted(result) == result = None

\* if result:
Truthy(result) == result # None

\* a slip: the loop is left after the first result (or at once without tasks)
AllYielded_Any == collected # {} \/ TaskIds = {}

\* as_completed is exhausted
AllYielded == collected = TaskIds

\* a slip: errors.insert(0, result)
Appended_Front(list, result) == <<result>> \o list

\* a slip: the result is appended twice
Appended_Twice(list, result) == Append(Append(list, result), result)

\* errors.append(result)
Appended(list, result) == Append(list, result)

\* line 117: as_completed is called; the futures finished by now form its
\* first batch
AsCompleted ==
    /\ pc = "submitted"
    /\ pc' = "as_completed"
    /\ snapshot' = Range(ready)
    /\ UNCHANGED <<inputs, login, tasks, futures, local, hist, collected, ready,
                   errors, report, dirs, files, cls>>

\* the futures as_completed can yield next: any of the first batch (a set,
\* iterated in no particular order), then the others as they completed
Yieldable ==
    IF snapshot # {} THEN snapshot
    ELSE IF ready # <<>> THEN {Head(ready)}
    ELSE {}

Collect(i) ==
    /\ pc = "as_completed"
    /\ i \in Yieldable
    /\ IF futures[i].exception # None
       THEN /\ pc' = "raised"
            /\ UNCHANGED <<collected, ready, snapshot, errors>>
       ELSE /\ collected' = collected \cup {i}
            /\ ready' = SelectSeq(ready, LAMBDA j : j # i)
            /\ snapshot' = snapshot \ {i}
            /\ errors' = IF Truthy(futures[i].result)
                         THEN Appended(errors, futures[i].result)
                         ELSE errors
            /\ pc' = pc
    /\ UNCHANGED <<inputs, login, tasks, futures, local, hist, report, dirs, files, cls>>

Return ==
    /\ pc = "as_completed"
    /\ AllYielded
    /\ pc' = "returned"
    /\ report' = errors
    /\ UNCHANGED <<inputs, login, tasks, futures, local, hist, collected, ready,
                   snapshot, errors, dirs, files, cls>>

Next ==
    \/ Login
    \/ Submit
    \/ AsCompleted
    \/ \E i \in TaskIds, w \in 1..max_workers : StartTask(i, w)
    \/ \E i \in TaskIds : GetDataRaises(i)
    \/ \E i \in TaskIds : GetDataReturns(i)
    \/ \E i \in TaskIds, leg \in Range(Legs) : WriteLeg(i, leg)
    \/ \E i \in TaskIds, leg \in Range(Legs) : WriteLegRaises(i, leg)
    \/ \E i \in TaskIds : Collect(i)
    \/ Return

Spec == Init /\ [][Next]_vars

(***************************************************************************)
(* The program with a remote call that may hang, under fair scheduling:    *)
(* a worker thread that can take or continue a task eventually does, a     *)
(* remote call or a write eventually returns, raises or hangs for good,    *)
(* and the thread in main and download_data eventually takes its next step.*)
(***************************************************************************)
\* the steps of the worker threads
WorkerNext ==
    \/ \E i \in 1..MaxTasks, w \in 1..MaxWorkers : StartTask(i, w)
    \/ \E i \in 1..MaxTasks : GetDataRaises(i) \/ GetDataReturns(i) \/ GetDataHangs(i)
    \/ \E i \in 1..MaxTasks, leg \in Range(Legs) : WriteLeg(i, leg) \/ WriteLegRaises(i, leg)

\* the steps of the thread that runs main and download_data
MainNext ==
    \/ Login
    \/ Submit
    \/ AsCompleted
    \/ \E i \in 1..MaxTasks : Collect(i)
    \/ Return

LiveNext == Next \/ \E i \in 1..MaxTasks : GetDataHangs(i)

LiveSpec == Init /\ [][LiveNext]_vars /\ WF_vars(WorkerNext) /\ WF_vars(MainNext)

(***************************************************************************)
(* process_data on its own: a raw frame and an instrument are drawn, the   *)
(* function is applied once.                                               *)
(***************************************************************************)
ClassifyInit ==
    /\ start_date = FirstDate /\ end_date = FirstDate
    /\ instruments = <<>>
    /\ max_workers = 1
    /\ login = "ok"
    /\ pc = "process_data"
    /\ Idle
    /\ cls_instrument \in Instruments
    /\ \E cols \in ColumnLists, syms \in SymbolSeqs : cls_in = RawFrame(cols, syms)
    /\ cls_out = NotRun

Classify ==
    /\ pc = "process_data"
    /\ cls_out = NotRun
    /\ cls_out' = process_data(cls_in, cls_instrument)
    /\ UNCHANGED <<inputs, login, pc, tasks, futures, local, hist, collected,
                   ready, snapshot, errors, report, dirs, files, cls_in,
                   cls_instrument>>

ClassifyNext == Classify

ClassifySpec == ClassifyInit /\ [][ClassifyNext]_vars

(***************************************************************************)
(* Properties.                                                             *)
(***************************************************************************)
\* the dates a run of the model can range over
AllDates == { AddDays(FirstDate, k) : k \in 0..(MaxDay + 1) }

SatOrSun(date) == Weekday(date) >= 5

\* start_date <= date < end_date
InRange(date) ==
    ToOrdinal(start_date) <= ToOrdinal(date) /\ ToOrdinal(date) < ToOrdinal(end_date)

TasksOf(date, instrument) == { i \in TaskIds : tasks[i] = <<date, instrument>> }

\* the entries of a failure list for (date, instrument)
EntriesOf(list, date, instrument) ==
    { k \in 1..Len(list) : list[k][1] = date /\ list[k][2] = instrument }

Submitted == pc \in {"submitted", "as_completed", "returned", "raised"}

\* the path the task's leg file is expected at
ExpectedPath(date, instrument, leg) ==
    "market_data/" \o Lower(instrument) \o "_" \o leg \o "/" \o Str(date.year)
        \o "/" \o Str(date.month) \o "/" \o Lower(instrument) \o "_" \o leg \o "_"
        \o Pad2(date.day) \o "_" \o Pad2(date.month) \o "_" \o Pad4(date.year) \o ".csv"

ExpectedPaths(date, instrument) ==
    { ExpectedPath(date, instrument, leg) : leg \in {"fut", "spot", "options"} }

\* C1 as stated: for a Saturday or Sunday in [start_date, end_date) and any
\* instrument, download_data creates no task, never fetches, never creates a
\* directory or writes a file, and records no failure.
C1_NoWeekendTask ==
    Submitted =>
      \A date \in AllDates : \A k \in 1..Len(instruments) :
        (InRange(date) /\ SatOrSun(date)) =>
          /\ TasksOf(date, instruments[k]) = {}
          /\ EntriesOf(errors, date, instruments[k]) = {}
          /\ ExpectedPaths(date, instruments[k]) \cap files = {}

\* C1 amended: a task is submitted for a Saturday or Sunday in range, but it
\* returns None at once: it never calls get_data, never creates a directory,
\* never writes a file, raises nothing and leaves no entry in errors.
C1_WeekendTaskDoesNothing ==
    Submitted =>
      \A date \in AllDates : \A k \in 1..Len(instruments) :
        (InRange(date) /\ SatOrSun(date)) =>
          /\ Cardinality(TasksOf(date, instruments[k])) = 1
          /\ \A i \in TasksOf(date, instruments[k]) :
                /\ hist[i].fetches = 0
                /\ hist[i].mkdirs = {}
                /\ hist[i].written = {}
                /\ hist[i].exc = None
                /\ local[i].phase \in {"queued", "done"}
                /\ futures[i].result = None /\ futures[i].exception = None
          /\ EntriesOf(errors, date, instruments[k]) = {}
          /\ ExpectedPaths(date, instruments[k]) \cap files = {}
          /\ (pc = "returned" =>
                /\ EntriesOf(report, date, instruments[k]) = {}
                /\ \A i \in TasksOf(date, instruments[k]) : hist[i].results = 1)

\* a run over a weekend and a weekday has returned, the weekday wrote a file
C1_Witness ==
    /\ pc = "returned"
    /\ \E i \in TaskIds : SatOrSun(TaskDate(i)) /\ futures[i].state = "FINISHED"
    /\ \E i \in TaskIds : ~SatOrSun(TaskDate(i)) /\ hist[i].written # {}

\* C2: every non-weekend date in [start_date, end_date) with every instrument
\* of the list has exactly one task, a Future is never given a second result,
\* and when download_data has returned that task has produced exactly one.
C2_ExactlyOneResult ==
    Submitted =>
      /\ \A i \in TaskIds :
            /\ hist[i].results <= 1
            /\ hist[i].results = 1 <=> futures[i].state = "FINISHED"
      /\ \A date \in AllDates : \A k \in 1..Len(instruments) :
            (InRange(date) /\ ~SatOrSun(date)) =>
              /\ Cardinality(TasksOf(date, instruments[k])) = 1
              /\ (pc = "returned" =>
                    \A i \in TasksOf(date, instruments[k]) :
                        hist[i].results = 1 /\ i \in collected)

\* two weekday tasks of one run have each produced a result, one of each kind
C2_Witness ==
    /\ pc = "returned"
    /\ \E i, j \in TaskIds :
          /\ i # j
          /\ ~SatOrSun(TaskDate(i)) /\ ~SatOrSun(TaskDate(j))
          /\ futures[i].result = None /\ hist[i].fetches = 1
          /\ futures[j].result # None

FailedTasks == { i \in TaskIds : hist[i].exc # None }

RunningTasks == { i \in TaskIds : futures[i].state = "RUNNING" }

\* the result a finished task must hold, given only what happened inside it
OwnResult(i) ==
    IF hist[i].exc = None THEN None
    ELSE <<TaskDate(i), TaskInstrument(i), hist[i].exc>>

C3_Caught ==
    Submitted =>
      /\ pc # "raised"
      /\ \A i \in TaskIds :
            /\ futures[i].exception = None
            /\ futures[i].state \in {"PENDING", "RUNNING", "FINISHED"}
            /\ futures[i].state = "FINISHED" => futures[i].result = OwnResult(i)
            /\ futures[i].state # "FINISHED" => hist[i].exc = None
      /\ (pc = "returned" => \A i \in TaskIds : futures[i].state = "FINISHED")

C3_SiblingsUntouched ==
    \A u \in TaskIds :
      (hist[u].exc = None /\ hist'[u].exc # None) =>
        /\ pc' = pc /\ tasks' = tasks /\ errors' = errors
        /\ \A t \in TaskIds \ {u} :
              futures'[t] = futures[t] /\ local'[t] = local[t] /\ hist'[t] = hist[t]

\* C3: an exception inside a task is caught at the task boundary: the task's
\* Future holds the failure tuple and never an exception, the step in which a
\* task fails changes no other task, every task's result is decided by what
\* happened inside that task alone, and download_data returns (never raises)
\* with every task finished.
C3_FailureIsolated == [](C3_Caught) /\ [][C3_SiblingsUntouched]_vars

\* a task failed, and a sibling that started after it still wrote its files
C3_Witness ==
    /\ pc = "returned"
    /\ \E u, t \in TaskIds :
          /\ u < t
          /\ hist[u].exc = "FetchError"
          /\ hist[t].exc = None /\ hist[t].written # {}

\* C4: when download_data has returned, the list holds exactly one entry
\* (date, instrument, message) for each task that failed and none for a task
\* that succeeded; a task whose get_data raised wrote no file.
C4_ReportExact ==
    /\ \A i \in TaskIds : hist[i].exc = "FetchError" => hist[i].written = {}
    /\ pc = "returned" =>
          /\ Len(report) = Cardinality(FailedTasks)
          /\ \A k \in 1..Len(report) : report[k] # None
          /\ \A i \in TaskIds :
                LET entries == EntriesOf(report, TaskDate(i), TaskInstrument(i)) IN
                /\ Cardinality(entries) = (IF i \in FailedTasks THEN 1 ELSE 0)
                /\ \A k \in entries : report[k] = OwnResult(i)

\* one task failed in get_data, another succeeded; the report has one entry
C4_Witness ==
    /\ pc = "returned"
    /\ Len(report) = 1
    /\ \E i, j \in TaskIds :
          /\ hist[i].exc = "FetchError" /\ report[1] = OwnResult(i)
          /\ hist[j].exc = None /\ hist[j].written # {}

C5_Drained ==
    pc = "returned" =>
      /\ collected = TaskIds
      /\ report = errors
      /\ \A i \in TaskIds :
            /\ futures[i].state = "FINISHED"
            /\ local[i].phase = "done"
            /\ hist[i].results = 1

C5_NothingAfterReturn ==
    pc = "returned" => (futures' = futures /\ report' = report /\ files' = files)

\* C5: in the state where download_data returns, every submitted task is
\* finished and collected (none pending, none executing), the returned list
\* is the whole errors list, and nothing changes after the return.
C5_ReturnsAfterAll == [](C5_Drained) /\ [][C5_NothingAfterReturn]_vars

\* a run of at least three tasks, two of them fetched, has returned
C5_Witness ==
    /\ pc = "returned"
    /\ Len(tasks) >= 3
    /\ Cardinality({ i \in TaskIds : hist[i].fetches = 1 }) >= 2

C6_Bounded ==
    Submitted =>
      /\ Cardinality(RunningTasks) <= max_workers
      /\ \A i \in RunningTasks : local[i].worker \in 1..max_workers
      /\ \A i, j \in RunningTasks : i # j => local[i].worker # local[j].worker
      /\ \A i \in TaskIds \ RunningTasks : local[i].worker = 0

C6_OneWorker ==
    \A i \in TaskIds :
      futures[i].state = "RUNNING" =>
        /\ futures'[i].state \in {"RUNNING", "FINISHED"}
        /\ futures'[i].state = "RUNNING" => local'[i].worker = local[i].worker

\* C6: at most max_workers tasks are executing at any time, each on a worker
\* of its own, and a task stays on the worker that started it until it ends.
C6_PoolBound == [](C6_Bounded) /\ [][C6_OneWorker]_vars

\* the pool is full (two workers, two tasks executing) and a task is queued
C6_Witness ==
    /\ max_workers = 2
    /\ Cardinality(RunningTasks) = 2
    /\ Pending # {}

\* C7: no two workers are inside get_data on the same connection object at
\* the same time.
C7_FetchSerialized ==
    \A i, j \in TaskIds :
      (i # j /\ local[i].phase = "get_data" /\ local[j].phase = "get_data")
        => ConnectionOf(i) # ConnectionOf(j)

(***************************************************************************)
(* Properties of process_data, checked under ClassifySpec.                 *)
(***************************************************************************)
Classified == cls_out # NotRun /\ HasColumns(cls_in, base_columns)

\* the rows of a group that came from row k of the input
FromRow(group, k) ==
    { j \in 1..Len(group.rows) :
        group.rows[j]["time"] = k /\ group.rows[j]["symbol"] = cls_in.rows[k]["symbol"] }

\* the group the partition rule gives a symbol
RuleGroup(sym) ==
    IF sym = cls_instrument \o "-I" THEN "futures"
    ELSE IF sym = cls_instrument THEN "spot"
    ELSE "options"

\* C8: for a frame with the nine base columns process_data does not raise;
\* a row is in futures iff its symbol is instrument + "-I", in spot iff it is
\* the instrument, in options otherwise (exact, case-sensitive); every input
\* row is in exactly one group, once, and the group sizes add up.
C8_TotalPartition ==
    Classified =>
      /\ cls_out.ok
      /\ LET g == cls_out.value IN
         /\ Len(g.futures.rows) + Len(g.spot.rows) + Len(g.options.rows)
               = Len(cls_in.rows)
         /\ \A k \in 1..Len(cls_in.rows) :
               \A name \in {"futures", "spot", "options"} :
                  Cardinality(FromRow(g[name], k))
                     = (IF name = RuleGroup(cls_in.rows[k]["symbol"]) THEN 1 ELSE 0)

\* NIFTY classified: one futures row, and the row "nifty" went to options
C8_Witness ==
    /\ Classified
    /\ cls_instrument = "NIFTY"
    /\ Len(cls_in.rows) = 2
    /\ cls_in.rows[1]["symbol"] = "NIFTY-I" /\ cls_in.rows[2]["symbol"] = "nifty"
    /\ Len(cls_out.value.futures.rows) = 1
    /\ Len(cls_out.value.spot.rows) = 0
    /\ Len(cls_out.value.options.rows) = 1

SevenColumns == {"date", "time", "symbol", "open", "high", "low", "close"}

NineColumns == SevenColumns \cup {"oi", "volume"}

HasExactly(group, cols) ==
    /\ Range(group.columns) = cols
    /\ Len(group.columns) = Cardinality(cols)
    /\ \A j \in 1..Len(group.rows) : DOMAIN group.rows[j] = cols

\* C9: the spot group has exactly the columns date, time, symbol, open, high,
\* low, close (no oi, no volume), in its header and in every row; the futures
\* and options groups have all nine base columns.
C9_Columns ==
    (Classified /\ cls_out.ok) =>
      /\ HasExactly(cls_out.value.spot, SevenColumns)
      /\ HasExactly(cls_out.value.futures, NineColumns)
      /\ HasExactly(cls_out.value.options, NineColumns)

\* a frame with an extra column was classified into a spot and a futures row
C9_Witness ==
    /\ Classified /\ cls_out.ok
    /\ "ticker" \in Range(cls_in.columns)
    /\ Len(cls_out.value.spot.rows) = 1
    /\ Len(cls_out.value.futures.rows) = 1

(***************************************************************************)
(* Properties of save_data inside a task, checked under Spec.              *)
(***************************************************************************)
\* get_data returned and process_data did not raise
ClassifiedTask(i) ==
    hist[i].raw_data # NoFrame /\ HasColumns(hist[i].raw_data, base_columns)

\* the leg's group of the task is non-empty, read off the fetched rows
NonEmptyLeg(i, leg) ==
    \E k \in 1..Len(hist[i].raw_data.rows) :
       LET sym == hist[i].raw_data.rows[k]["symbol"] IN
       CASE leg = "fut" -> sym = TaskInstrument(i) \o "-I"
         [] leg = "spot" -> sym = TaskInstrument(i)
         [] leg = "options" -> sym # TaskInstrument(i) /\ sym # TaskInstrument(i) \o "-I"

\* C10 as stated: for a finished task whose fetch and classification
\* succeeded, the leg's file was written iff the leg's group is non-empty.
C10_WrittenIffNonEmpty ==
    \A i \in TaskIds :
      (futures[i].state = "FINISHED" /\ ClassifiedTask(i)) =>
        \A leg \in {"fut", "spot", "options"} :
           ExpectedPath(TaskDate(i), TaskInstrument(i), leg) \in hist[i].written
              <=> NonEmptyLeg(i, leg)

\* C10 amended: a task writes only files named
\* {instrument.lower()}_{leg}_{dd_mm_yyyy}.csv under the leg's directory and
\* only for a non-empty group; a task that ends as a Success has written the
\* file of every non-empty group and of no empty one; a task with all groups
\* empty is a Success; a write failure comes only from a non-empty group.
C10_NonEmptyWritten ==
    \A i \in TaskIds :
      /\ hist[i].written \subseteq ExpectedPaths(TaskDate(i), TaskInstrument(i))
      /\ hist[i].written \subseteq files
      /\ hist[i].written # {} => ClassifiedTask(i)
      /\ ClassifiedTask(i) =>
           /\ \A leg \in {"fut", "spot", "options"} :
                 /\ ExpectedPath(TaskDate(i), TaskInstrument(i), leg) \in hist[i].written
                       => NonEmptyLeg(i, leg)
                 /\ (futures[i].state = "FINISHED" /\ hist[i].exc = None) =>
                       (ExpectedPath(TaskDate(i), TaskInstrument(i), leg) \in hist[i].written
                          <=> NonEmptyLeg(i, leg))
           /\ hist[i].exc \in {None, "PersistError"}
           /\ hist[i].exc = "PersistError" =>
                 \E leg \in {"fut", "spot", "options"} :
                    /\ NonEmptyLeg(i, leg)
                    /\ ExpectedPath(TaskDate(i), TaskInstrument(i), leg) \notin hist[i].written

\* BANKNIFTY on Friday 31 December 2021 has a spot row only: the task is a
\* Success with the spot file alone; NIFTY on that day wrote all three files
C10_Witness ==
    /\ pc = "returned"
    /\ \E i \in TaskIds :
          /\ tasks[i] = <<Date(2021, 12, 31), "BANKNIFTY">>
          /\ futures[i].result = None
          /\ hist[i].written = {"market_data/banknifty_spot/2021/12/banknifty_spot_31_12_2021.csv"}
    /\ \E j \in TaskIds :
          /\ tasks[j] = <<Date(2021, 12, 31), "NIFTY">>
          /\ hist[j].written =
                { "market_data/nifty_fut/2021/12/nifty_fut_31_12_2021.csv",
                  "market_data/nifty_spot/2021/12/nifty_spot_31_12_2021.csv",
                  "market_data/nifty_options/2021/12/nifty_options_31_12_2021.csv" }

(***************************************************************************)
(* C11 and C12: destinations and directories.                              *)
(***************************************************************************)
\* C11: two tasks of one run with different (date, instrument) never write
\* the same file: whatever the legs, the files they have written are
\* different paths.
C11_NoCollision ==
    \A i, j \in TaskIds :
       tasks[i] # tasks[j] => hist[i].written \cap hist[j].written = {}

\* the tasks for which create_directory_structure has been called
Resolved == { i \in TaskIds : hist[i].mkdirs # {} }

\* C12: create_directory_structure never fails because a directory exists,
\* whether called again or from several tasks with the same or different
\* (date, instrument); each call returns the three paths of its inputs, a
\* second call returns the same paths and leaves the existing directories as
\* the first call left them.
C12_Idempotent ==
    /\ \A i \in TaskIds : hist[i].exc # "FileExistsError"
    /\ \A i \in Resolved :
          LET again == create_directory_structure(dirs, TaskDate(i), TaskInstrument(i))
          IN  /\ hist[i].mkdirs \subseteq dirs
              /\ again.ok
              /\ again.dirs = dirs
              /\ { again.value[leg] : leg \in Range(Legs) } = hist[i].mkdirs
    /\ \A date \in AllDates : \A instrument \in Instruments :
          LET once == create_directory_structure(dirs, date, instrument)
              twice == create_directory_structure(once.dirs, date, instrument)
          IN  /\ once.ok /\ twice.ok
              /\ twice.value = once.value
              /\ twice.dirs = once.dirs

\* NIFTY and nifty of one date, whose directories are the same, and
\* BANKNIFTY, whose directories are others, are all past their call
C12_Witness ==
    /\ \E i, j \in Resolved :
          /\ i # j
          /\ hist[i].mkdirs = hist[j].mkdirs
          /\ Running(i) /\ Running(j)
    /\ \E i, j \in Resolved : hist[i].mkdirs \cap hist[j].mkdirs = {}

(***************************************************************************)
(* C13: the range of dates.                                                *)
(***************************************************************************)
\* no date of the range is a weekday (true of the empty range too)
NoWeekdayInRange == \A date \in AllDates : InRange(date) => SatOrSun(date)

NothingFetched ==
    /\ \A i \in TaskIds : hist[i].fetches = 0
    /\ errors = <<>>
    /\ pc = "returned" => report = <<>>

\* C13 as stated: the tasks cover the dates start_date <= d < end_date and
\* never end_date; when start_date >= end_date or every date in range is a
\* weekend, there is no task, no fetch, and the report is empty.
C13_EmptyTaskSet ==
    Submitted =>
      /\ \A i \in TaskIds : InRange(TaskDate(i))
      /\ (ToOrdinal(start_date) >= ToOrdinal(end_date) \/ NoWeekdayInRange) =>
            tasks = <<>> /\ NothingFetched

\* C13 amended: with a non-empty instrument list the dates of the tasks are
\* exactly the dates start_date <= d < end_date, weekends included, one task
\* per date and instrument, and end_date has no task; when start_date >=
\* end_date there is no task; when there is no task or every date in range
\* is a weekend, nothing is fetched, nothing is created or written and the
\* report is empty.
C13_HalfOpenRange ==
    Submitted =>
      /\ \A i \in TaskIds : InRange(TaskDate(i)) /\ TaskDate(i) # end_date
      /\ \A date \in AllDates : \A k \in 1..Len(instruments) :
            Cardinality(TasksOf(date, instruments[k])) = IF InRange(date) THEN 1 ELSE 0
      /\ Len(tasks) = Cardinality({ date \in AllDates : InRange(date) }) * Len(instruments)
      /\ ToOrdinal(start_date) >= ToOrdinal(end_date) => tasks = <<>>
      /\ (tasks = <<>> \/ NoWeekdayInRange) =>
            /\ NothingFetched
            /\ dirs = {} /\ files = {}
            /\ pc # "raised"

\* a run from Friday 31 December 2021 to Monday 3 January 2022 has returned:
\* Friday was fetched, the weekend has its two tasks, Monday has no task
C13_Witness ==
    /\ pc = "returned"
    /\ ~SatOrSun(end_date)
    /\ \E i \in TaskIds : ~SatOrSun(TaskDate(i)) /\ hist[i].fetches = 1
    /\ \E i \in TaskIds : AddDay(TaskDate(i)) = end_date
    /\ \A i \in TaskIds : TaskDate(i) # end_date

\* a run over Saturday and Sunday only has returned
C13_WeekendOnly ==
    /\ pc = "returned" /\ tasks # <<>> /\ NoWeekdayInRange

\* a run with end_date before start_date has returned
C13_Reversed ==
    /\ pc = "returned" /\ instruments # <<>>
    /\ ToOrdinal(start_date) > ToOrdinal(end_date)

(***************************************************************************)
(* C14: authentication.                                                    *)
(***************************************************************************)
\* login raised, or check_login was false
LoginFailed == login \in {"raised", "refused"}

\* C14: when the initial login raises or check_login is false, the run
\* aborts before download_data is called: no task is ever built or
\* submitted, nothing is fetched, no directory is created, no file written,
\* and no report is returned; tasks exist only after a successful login.
C14_LoginFailureAborts ==
    /\ LoginFailed =>
         /\ pc = "aborted"
         /\ tasks = <<>> /\ futures = <<>>
         /\ dirs = {} /\ files = {}
         /\ errors = <<>> /\ report = None
    /\ pc = "aborted" => LoginFailed
    /\ (tasks # <<>> \/ Submitted) => login = "ok"

\* check_login was false: the run is aborted although it was given tasks to do
C14_Witness ==
    /\ login = "refused"
    /\ pc = "aborted"
    /\ Len(DateRange(start_date, end_date)) * Len(instruments) > 0

(***************************************************************************)
(* C15: a task is run once.                                                *)
(***************************************************************************)
C15_AtMostOnce ==
    /\ \A i \in TaskIds :
          /\ hist[i].starts <= 1
          /\ hist[i].fetches <= hist[i].starts
          /\ hist[i].starts = 0 <=> futures[i].state = "PENDING"
          /\ hist[i].exc = "FetchError" =>
                /\ futures[i].state = "FINISHED"
                /\ hist[i].fetches = 1
                /\ local[i].phase = "done"
    /\ \A i, j \in TaskIds :
          (tasks[i] = tasks[j] /\ hist[i].fetches > 0 /\ hist[j].fetches > 0) => i = j

\* a finished task is never taken again: nothing of it changes any more
C15_NeverRequeued ==
    \A i \in TaskIds :
       futures[i].state = "FINISHED" =>
          /\ futures'[i] = futures[i]
          /\ hist'[i] = hist[i]
          /\ local'[i] = local[i]

\* C15: each task is taken exactly once by one worker and get_data is called
\* at most once for it; a task whose fetch failed is finished and is never
\* run or queued again; no (date, instrument) of the run is fetched twice.
C15_ConsumedOnce == [](C15_AtMostOnce) /\ [][C15_NeverRequeued]_vars

\* the run has returned with a task whose only fetch failed and another
\* whose only fetch succeeded
C15_Witness ==
    /\ pc = "returned"
    /\ \E i, j \in TaskIds :
          /\ hist[i].exc = "FetchError" /\ hist[i].fetches = 1 /\ hist[i].starts = 1
          /\ hist[j].exc = None /\ hist[j].fetches = 1 /\ hist[j].starts = 1

(***************************************************************************)
(* C16: the order of the steps of a task.                                  *)
(***************************************************************************)
\* C16: create_directory_structure is called only after the task's get_data
\* and process_data have succeeded: a task that has created directories has
\* fetched and classified its data, and a task whose fetch failed has
\* created no directory and written no file.
C16_ResolveAfterFetch ==
    \A i \in TaskIds :
       /\ hist[i].mkdirs # {} => ClassifiedTask(i)
       /\ hist[i].exc = "FetchError" => hist[i].mkdirs = {} /\ hist[i].written = {}

(***************************************************************************)
(* C20: a write failure inside save_data.                                  *)
(***************************************************************************)
SaveOrder == <<"fut", "spot", "options">>

Wrote(i, k) ==
    ExpectedPath(TaskDate(i), TaskInstrument(i), SaveOrder[k]) \in hist[i].written

\* the files a task has written are those of its first non-empty groups, in
\* the order futures, spot, options; a task whose write failed is finished
\* with exactly one Failure result, the failing group and all groups after it
\* are not written, the non-empty groups before it are, and their files exist
C20_Prefix ==
    \A i \in TaskIds :
       /\ \A k, m \in 1..3 :
             (k < m /\ NonEmptyLeg(i, SaveOrder[k]) /\ Wrote(i, m)) => Wrote(i, k)
       /\ hist[i].exc = "PersistError" =>
             /\ futures[i].state = "FINISHED"
             /\ hist[i].results = 1
             /\ futures[i].result = <<TaskDate(i), TaskInstrument(i), "PersistError">>
             /\ \E k \in 1..3 :
                   /\ NonEmptyLeg(i, SaveOrder[k])
                   /\ \A m \in 1..3 : m >= k => ~Wrote(i, m)
                   /\ \A m \in 1..3 : (m < k /\ NonEmptyLeg(i, SaveOrder[m])) => Wrote(i, m)
             /\ hist[i].written \subseteq files
             /\ i \in collected =>
                   Cardinality(EntriesOf(errors, TaskDate(i), TaskInstrument(i))) = 1

\* a file once written stays on disk
C20_FilesRemain == files \subseteq files'

\* C20: save_data writes the non-empty groups in the order futures, spot,
\* options and stops at the first write that fails: the later groups are
\* never written for the task, the files written before remain on disk, and
\* the task yields exactly one Failure.
C20_StopsAtFirstFailure == [](C20_Prefix) /\ [][C20_FilesRemain]_vars

\* NIFTY on Friday 31 December 2021 wrote its futures file, failed on the
\* spot file, never wrote the options file; the run has returned its Failure
C20_Witness ==
    /\ pc = "returned"
    /\ \E i \in TaskIds :
          /\ tasks[i] = <<Date(2021, 12, 31), "NIFTY">>
          /\ hist[i].exc = "PersistError"
          /\ NonEmptyLeg(i, "spot") /\ NonEmptyLeg(i, "options")
          /\ hist[i].written = {"market_data/nifty_fut/2021/12/nifty_fut_31_12_2021.csv"}
          /\ "market_data/nifty_fut/2021/12/nifty_fut_31_12_2021.csv" \in files
          /\ report = << <<Date(2021, 12, 31), "NIFTY", "PersistError">> >>

(***************************************************************************)
(* C18 and C19: the failure list.                                          *)
(***************************************************************************)
\* the list only grows at its end
C18_AppendOnly ==
    /\ Len(errors) <= Len(errors')
    /\ SubSeq(errors', 1, Len(errors)) = errors

PositionIn(seq, i) == CHOOSE k \in 1..Len(seq) : seq[k] = i

\* the future yielded in this step
Yielded == collected' \ collected

\* an entry is appended for the failed task that completed first among those
\* whose result has not been collected yet
C18_InCompletionOrder ==
    errors' # errors =>
       \E i \in Yielded :
          /\ i \in Range(ready)
          /\ \A k \in 1..Len(ready) :
                k < PositionIn(ready, i) => futures[ready[k]].result = None

AllCompleted == Submitted /\ \A i \in TaskIds : futures[i].state = "FINISHED"

\* once every task has completed the list no longer changes
C18_FinalWhenCompleted == AllCompleted => errors' = errors

\* C18 as stated: the failure list only grows, no entry is removed, changed
\* or reordered, the entries are in the order in which the tasks completed,
\* and the list is final once all tasks have completed.
C18_CompletionOrderFinal ==
    [][C18_AppendOnly /\ C18_InCompletionOrder /\ C18_FinalWhenCompleted]_vars

\* an entry is appended for the future as_completed yields: one of those
\* already finished when as_completed was called, in no particular order,
\* and after them the others in the order in which they completed
C18_InArrivalOrder ==
    errors' # errors =>
       \E i \in TaskIds :
          /\ Yielded = {i}
          /\ futures[i].state = "FINISHED"
          /\ errors' = Append(errors, futures[i].result)
          /\ IF snapshot # {} THEN i \in snapshot ELSE i = Head(ready)

\* the list is final when download_data returns it
C18_FinalWhenReturned ==
    /\ pc = "returned" => errors' = errors /\ report' = report
    /\ pc' = "returned" => report' = errors'

\* C18 amended: the failure list only grows, no entry is removed, changed or
\* reordered; the entries are in the order in which as_completed yields the
\* results, which is the completion order for the tasks that complete after
\* as_completed is called and arbitrary among those that completed before;
\* the list is final when run returns it, not when the last task completes.
C18_AppendOnlyArrival ==
    [][C18_AppendOnly /\ C18_InArrivalOrder /\ C18_FinalWhenReturned]_vars

\* the run has returned two failures, the second of which was appended
\* while the first was already in the list
C18_Witness ==
    /\ pc = "returned"
    /\ Len(report) = 2
    /\ report[1] # report[2]
    /\ \A k \in 1..2 : \E i \in TaskIds : report[k] = futures[i].result

\* a step of a worker: a task is taken, moves on or ends
WorkerStep == Submitted /\ (futures' # futures \/ local' # local \/ hist' # hist)

\* the list changes only in a step of the as_completed loop, by one append of
\* the yielded future's result; a worker step leaves the list alone
C19_OnlyCollectorAppends ==
    /\ errors' # errors =>
          /\ pc = "as_completed"
          /\ ~WorkerStep
          /\ dirs' = dirs /\ files' = files
          /\ \E i \in TaskIds \ collected :
                /\ collected' = collected \cup {i}
                /\ futures[i].result # None
                /\ errors' = Append(errors, futures[i].result)
    /\ WorkerStep => errors' = errors /\ collected' = collected

\* every collected failure is in the list exactly once, nothing else is
C19_NoneLostOrDuplicated ==
    Submitted =>
      /\ \A i \in TaskIds :
            /\ futures[i].state = "FINISHED" => futures[i].result = OwnResult(i)
            /\ Cardinality({ k \in 1..Len(errors) : errors[k] = OwnResult(i) })
                  = IF i \in collected /\ hist[i].exc # None THEN 1 ELSE 0
      /\ Len(errors) = Cardinality({ i \in collected : hist[i].exc # None })

\* C19: the failure list is changed only by the thread that runs the
\* as_completed loop, one append per collected failure; a worker only sets
\* its own Future and never touches the list, so for any max_workers no
\* result is lost or appended twice.
C19_SingleWriter == [](C19_NoneLostOrDuplicated) /\ [][C19_OnlyCollectorAppends]_vars

\* with two workers, one failure is in the list while another task is still
\* running and a third has failed and waits to be collected
C19_Witness ==
    /\ pc = "as_completed"
    /\ max_workers = 2
    /\ Len(errors) = 1
    /\ \E i \in TaskIds : Running(i)
    /\ \E j \in TaskIds \ collected : futures[j].state = "FINISHED" /\ hist[j].exc # None

(***************************************************************************)
(* C17: a remote call that never returns.                                  *)
(***************************************************************************)
\* the tasks whose get_data call hangs
Hung == { i \in TaskIds : local[i].phase = "hung" }

\* a hung task holds one worker, which no other running task has, and as
\* long as a task hangs download_data has not returned
C17_OneSlot ==
    /\ \A i \in Hung :
          /\ Running(i)
          /\ local[i].worker \in 1..max_workers
          /\ \A j \in TaskIds : (j # i /\ Running(j)) => local[j].worker # local[i].worker
    /\ Cardinality(BusyWorkers) = Cardinality({ i \in TaskIds : Running(i) })
    /\ Hung # {} => pc \notin {"returned", "raised"} /\ report = None

\* nothing ends a hanging call: no timeout, no cancellation
C17_HungForGood ==
    \A i \in Hung : local'[i] = local[i] /\ futures'[i] = futures[i]

\* while fewer tasks hang than there are workers, every other task ends and
\* its result is collected
C17_OthersFinish ==
    \/ pc = "aborted"
    \/ /\ Submitted
       /\ Cardinality(Hung) < max_workers =>
             \A i \in TaskIds \ Hung : futures[i].state = "FINISHED" /\ i \in collected

\* when no call hangs, download_data returns
C17_ReturnsIfNoHang ==
    \/ pc = "aborted"
    \/ Submitted /\ (Hung = {} => pc = "returned")

\* C17: a task whose get_data hangs for good holds exactly one worker; with
\* a worker to spare and fair scheduling every other task still ends and its
\* result is collected, while download_data never returns; when no call
\* hangs, download_data eventually returns.
C17_HangHoldsOneWorker ==
    /\ [](C17_OneSlot)
    /\ [][C17_HungForGood]_vars
    /\ <>[](C17_OthersFinish)
    /\ <>[](C17_ReturnsIfNoHang)

\* with two workers one task hangs in get_data; two others have fetched,
\* one of them has written a file, and their results are collected
C17_Witness ==
    /\ max_workers = 2
    /\ pc = "as_completed"
    /\ Cardinality(Hung) = 1
    /\ Cardinality(TaskIds \ Hung) >= 2
    /\ \A i \in TaskIds \ Hung : futures[i].state = "FINISHED" /\ i \in collected
    /\ \E i \in TaskIds \ Hung : hist[i].fetches = 1 /\ hist[i].written # {}

====
